---- MODULE Spec2Model ----
(***************************************************************************)
(* Core Passkeys Wrapper (src/core-passkeys-wrapper.js, the variant with   *)
(* getTokenBrandInfo and executeAuthenticate, lines 198-568).              *)
(*                                                                         *)
(* The wrapper is single-threaded asynchronous JavaScript.  Every action   *)
(* below is one run-to-completion segment of a public function: from its   *)
(* call, or from the settling of the promise it awaits, up to its next     *)
(* await, its return or its throw.  Segments of different calls interleave *)
(* in any order.                                                           *)
(*                                                                         *)
(* JavaScript strings are sequences of one-character strings, so that      *)
(* String.prototype.includes, template literals and URL construction are   *)
(* computed as the code computes them.                                     *)
(***************************************************************************)
EXTENDS Integers, Sequences, FiniteSets, TLC

(***************************************************************************)
(* String literals of the source                                           *)
(***************************************************************************)
\* 'CorePasskeysWrapper not initialized. Please call init() first.'
MsgNotInitialized ==
    <<"C","o","r","e","P","a","s","s","k","e","y","s","W","r","a","p","p","e","r"," ","n","o",
      "t"," ","i","n","i","t","i","a","l","i","z","e","d","."," ","P","l","e","a","s","e"," ",
      "c","a","l","l"," ","i","n","i","t","(",")"," ","f","i","r","s","t",".">>

\* 'Missing required parameters: managerCode, merchantCode, and tokenCode are all required.'
MsgMissingParams ==
    <<"M","i","s","s","i","n","g"," ","r","e","q","u","i","r","e","d"," ","p","a","r","a","m",
      "e","t","e","r","s",":"," ","m","a","n","a","g","e","r","C","o","d","e",","," ","m","e",
      "r","c","h","a","n","t","C","o","d","e",","," ","a","n","d"," ","t","o","k","e","n","C",
      "o","d","e"," ","a","r","e"," ","a","l","l"," ","r","e","q","u","i","r","e","d",".">>

\* 'Failed to fetch token information: '
MsgFetchFailedPrefix ==
    <<"F","a","i","l","e","d"," ","t","o"," ","f","e","t","c","h"," ","t","o","k","e","n"," ",
      "i","n","f","o","r","m","a","t","i","o","n",":"," ">>

\* 'Core API request failed with status '
MsgStatusPrefix ==
    <<"C","o","r","e"," ","A","P","I"," ","r","e","q","u","e","s","t"," ","f","a","i","l","e",
      "d"," ","w","i","t","h"," ","s","t","a","t","u","s"," ">>

\* ': '
MsgColonSpace ==
    <<":"," ">>

\* 'Failed to load Mastercard SDK from '
MsgLoadFailedPrefix ==
    <<"F","a","i","l","e","d"," ","t","o"," ","l","o","a","d"," ","M","a","s","t","e","r","c",
      "a","r","d"," ","S","D","K"," ","f","r","o","m"," ">>

\* 'Mastercard SDK not initialized. Call init() first.'
MsgSdkNotInitialized ==
    <<"M","a","s","t","e","r","c","a","r","d"," ","S","D","K"," ","n","o","t"," ","i","n","i",
      "t","i","a","l","i","z","e","d","."," ","C","a","l","l"," ","i","n","i","t","(",")"," ",
      "f","i","r","s","t",".">>

\* 'Authentication failed'
MsgAuthFailed ==
    <<"A","u","t","h","e","n","t","i","c","a","t","i","o","n"," ","f","a","i","l","e","d">>

\* 'Network error occurred during authentication.'
MsgNetworkError ==
    <<"N","e","t","w","o","r","k"," ","e","r","r","o","r"," ","o","c","c","u","r","r","e","d",
      " ","d","u","r","i","n","g"," ","a","u","t","h","e","n","t","i","c","a","t","i","o","n",
      ".">>

\* 'Authentication request timed out.'
MsgTimeout ==
    <<"A","u","t","h","e","n","t","i","c","a","t","i","o","n"," ","r","e","q","u","e","s","t",
      " ","t","i","m","e","d"," ","o","u","t",".">>

\* 'Invalid request data provided.'
MsgInvalidInput ==
    <<"I","n","v","a","l","i","d"," ","r","e","q","u","e","s","t"," ","d","a","t","a"," ","p",
      "r","o","v","i","d","e","d",".">>

\* ' (Original: '
MsgOriginalOpen ==
    <<" ","(","O","r","i","g","i","n","a","l",":"," ">>

\* ')'
MsgOriginalClose ==
    <<")">>

\* 'network'
KwNetwork ==
    <<"n","e","t","w","o","r","k">>

\* 'fetch'
KwFetch ==
    <<"f","e","t","c","h">>

\* 'timeout'
KwTimeout ==
    <<"t","i","m","e","o","u","t">>

\* 'invalid'
KwInvalid ==
    <<"i","n","v","a","l","i","d">>

\* 'validation'
KwValidation ==
    <<"v","a","l","i","d","a","t","i","o","n">>

\* 'undefined'
StrUndefined ==
    <<"u","n","d","e","f","i","n","e","d">>

\* 'null'
StrNull ==
    <<"n","u","l","l">>

\* '[object Object]'
StrObject ==
    <<"[","o","b","j","e","c","t"," ","O","b","j","e","c","t","]">>

\* 'http://localhost:18080'
UrlLocal ==
    <<"h","t","t","p",":","/","/","l","o","c","a","l","h","o","s","t",":","1","8","0","8","0">>

\* 'https://tr-tsp-test.gtp-seglan.com'
UrlProduction ==
    <<"h","t","t","p","s",":","/","/","t","r","-","t","s","p","-","t","e","s","t",".","g","t",
      "p","-","s","e","g","l","a","n",".","c","o","m">>

\* 'https://tr-tsp-test.gtp-seglan.com'
UrlSandbox ==
    <<"h","t","t","p","s",":","/","/","t","r","-","t","s","p","-","t","e","s","t",".","g","t",
      "p","-","s","e","g","l","a","n",".","c","o","m">>

\* '/tr-tsp-api-core/v1/private/manager/'
PathManager ==
    <<"/","t","r","-","t","s","p","-","a","p","i","-","c","o","r","e","/","v","1","/","p","r",
      "i","v","a","t","e","/","m","a","n","a","g","e","r","/">>

\* '/merchant/'
PathMerchant ==
    <<"/","m","e","r","c","h","a","n","t","/">>

\* '/token/'
PathToken ==
    <<"/","t","o","k","e","n","/">>

\* '/brand-info'
PathBrandInfo ==
    <<"/","b","r","a","n","d","-","i","n","f","o">>

\* 'https://src.mastercard.com/auth/js/sdk.js'
ScriptUrlProduction ==
    <<"h","t","t","p","s",":","/","/","s","r","c",".","m","a","s","t","e","r","c","a","r","d",
      ".","c","o","m","/","a","u","t","h","/","j","s","/","s","d","k",".","j","s">>

\* 'https://sandbox.src.mastercard.com/auth/js/sdk.js'
ScriptUrlSandbox ==
    <<"h","t","t","p","s",":","/","/","s","a","n","d","b","o","x",".","s","r","c",".","m","a",
      "s","t","e","r","c","a","r","d",".","c","o","m","/","a","u","t","h","/","j","s","/","s",
      "d","k",".","j","s">>

\* 'local'
EnvLocal ==
    <<"l","o","c","a","l">>

\* 'development'
EnvDevelopment ==
    <<"d","e","v","e","l","o","p","m","e","n","t">>

\* 'production'
EnvProduction ==
    <<"p","r","o","d","u","c","t","i","o","n">>

\* 'sandbox'
EnvSandbox ==
    <<"s","a","n","d","b","o","x">>

\* 'staging'
EnvStaging ==
    <<"s","t","a","g","i","n","g">>

\* 'Cannot read properties of undefined (reading 'environment')'
TypeErrorReadEnvironment ==
    <<"C","a","n","n","o","t"," ","r","e","a","d"," ","p","r","o","p","e","r","t","i","e","s",
      " ","o","f"," ","u","n","d","e","f","i","n","e","d"," ","(","r","e","a","d","i","n","g",
      " ","'","e","n","v","i","r","o","n","m","e","n","t","'",")">>

\* 'Cannot convert undefined or null to object'
TypeErrorObjectKeys ==
    <<"C","a","n","n","o","t"," ","c","o","n","v","e","r","t"," ","u","n","d","e","f","i","n",
      "e","d"," ","o","r"," ","n","u","l","l"," ","t","o"," ","o","b","j","e","c","t">>

\* 'Cannot read properties of undefined (reading 'value')'
TypeErrorReadValue ==
    <<"C","a","n","n","o","t"," ","r","e","a","d"," ","p","r","o","p","e","r","t","i","e","s",
      " ","o","f"," ","u","n","d","e","f","i","n","e","d"," ","(","r","e","a","d","i","n","g",
      " ","'","v","a","l","u","e","'",")">>

\* 'Cannot read properties of undefined (reading 'toString')'
TypeErrorReadToString ==
    <<"C","a","n","n","o","t"," ","r","e","a","d"," ","p","r","o","p","e","r","t","i","e","s",
      " ","o","f"," ","u","n","d","e","f","i","n","e","d"," ","(","r","e","a","d","i","n","g",
      " ","'","t","o","S","t","r","i","n","g","'",")">>

\* 'Cannot destructure property 'unifiedServiceId' of 'coreData' as it is undefined.'
TypeErrorDestructure ==
    <<"C","a","n","n","o","t"," ","d","e","s","t","r","u","c","t","u","r","e"," ","p","r","o",
      "p","e","r","t","y"," ","'","u","n","i","f","i","e","d","S","e","r","v","i","c","e","I",
      "d","'"," ","o","f"," ","'","c","o","r","e","D","a","t","a","'"," ","a","s"," ","i","t",
      " ","i","s"," ","u","n","d","e","f","i","n","e","d",".">>

\* 'Cannot destructure property 'managerCode' of 'params' as it is undefined.'
TypeErrorDestructureParams ==
    <<"C","a","n","n","o","t"," ","d","e","s","t","r","u","c","t","u","r","e"," ","p","r","o",
      "p","e","r","t","y"," ","'","m","a","n","a","g","e","r","C","o","d","e","'"," ","o","f",
      " ","'","p","a","r","a","m","s","'"," ","a","s"," ","i","t"," ","i","s"," ","u","n","d",
      "e","f","i","n","e","d",".">>

\* 'Cannot read properties of undefined (reading 'assuranceData')'
TypeErrorReadSdkResponse ==
    <<"C","a","n","n","o","t"," ","r","e","a","d"," ","p","r","o","p","e","r","t","i","e","s",
      " ","o","f"," ","u","n","d","e","f","i","n","e","d"," ","(","r","e","a","d","i","n","g",
      " ","'","a","s","s","u","r","a","n","c","e","D","a","t","a","'",")">>

\* 'Failed to fetch'
TypeErrorFailedToFetch ==
    <<"F","a","i","l","e","d"," ","t","o"," ","f","e","t","c","h">>

\* 'Unexpected token < in JSON at position 0'
SyntaxErrorJson ==
    <<"U","n","e","x","p","e","c","t","e","d"," ","t","o","k","e","n"," ","<"," ","i","n"," ",
      "J","S","O","N"," ","a","t"," ","p","o","s","i","t","i","o","n"," ","0">>

\* 'Not Found'
StatusTextNotFound ==
    <<"N","o","t"," ","F","o","u","n","d">>

\* 'Internal Server Error'
StatusTextServerError ==
    <<"I","n","t","e","r","n","a","l"," ","S","e","r","v","e","r"," ","E","r","r","o","r">>

\* 'network request failed'
SdkMsgNetworkRequestFailed ==
    <<"n","e","t","w","o","r","k"," ","r","e","q","u","e","s","t"," ","f","a","i","l","e","d">>

\* 'User cancelled'
SdkMsgUserCancelled ==
    <<"U","s","e","r"," ","c","a","n","c","e","l","l","e","d">>

\* 'azul'
IdAzul ==
    <<"a","z","u","l">>

\* 'm-1'
IdMerchant ==
    <<"m","-","1">>

\* 't-1'
IdToken ==
    <<"t","-","1">>

\* 'CARDHOLDER'
Cardholder ==
    <<"C","A","R","D","H","O","L","D","E","R">>

\* '3DS'
Method3DS ==
    <<"3","D","S">>

\* 'MANAGED_AUTHENTICATION'
MethodManaged ==
    <<"M","A","N","A","G","E","D","_","A","U","T","H","E","N","T","I","C","A","T","I","O","N">>

\* 'TRANSACTION_AUTHENTICATION'
ReasonTransaction ==
    <<"T","R","A","N","S","A","C","T","I","O","N","_","A","U","T","H","E","N","T","I","C","A",
      "T","I","O","N">>

\* 'ENROL_FINANCIAL_INSTRUMENT'
ReasonEnrol ==
    <<"E","N","R","O","L","_","F","I","N","A","N","C","I","A","L","_","I","N","S","T","R","U",
      "M","E","N","T">>

\* '3ds'
In3ds ==
    <<"3","d","s">>

\* 'passkey'
InPasskey ==
    <<"p","a","s","s","k","e","y">>

\* 'login'
InLogin ==
    <<"l","o","g","i","n">>

\* 'payment'
InPayment ==
    <<"p","a","y","m","e","n","t">>

\* 'enroll'
InEnroll ==
    <<"e","n","r","o","l","l">>

\* 'constructor'
KeyConstructor ==
    <<"c","o","n","s","t","r","u","c","t","o","r">>

\* 'toString'
KeyToString ==
    <<"t","o","S","t","r","i","n","g">>

\* 'valueOf'
KeyValueOf ==
    <<"v","a","l","u","e","O","f">>

\* 'hasOwnProperty'
KeyHasOwnProperty ==
    <<"h","a","s","O","w","n","P","r","o","p","e","r","t","y">>

\* 'OK'
StatusTextOk ==
    <<"O","K">>

\* 'svc-1'
SvcId ==
    <<"s","v","c","-","1">>

\* 'cli-1'
ClientId ==
    <<"c","l","i","-","1">>

\* 'tok-1'
TokenId ==
    <<"t","o","k","-","1">>

\* 'Shop'
MerchName ==
    <<"S","h","o","p">>

\* 'https://shop.example'
MerchWeb ==
    <<"h","t","t","p","s",":","/","/","s","h","o","p",".","e","x","a","m","p","l","e">>

\* 'es_CL'
LocaleEsCl ==
    <<"e","s","_","C","L">>

\* '99.99'
Amount9999 ==
    <<"9","9",".","9","9">>

\* 'USD'
CurrencyUsd ==
    <<"U","S","D">>

\* '550e8400'
AcqMerchantId ==
    <<"5","5","0","e","8","4","0","0">>

\* '444444'
AcqBin ==
    <<"4","4","4","4","4","4">>

\* '5734'
Mcc5734 ==
    <<"5","7","3","4">>

\* 'US'
CountryUs ==
    <<"U","S">>

\* '1 Main St'
Line1 ==
    <<"1"," ","M","a","i","n"," ","S","t">>

\* 'AUTHENTICATED'
AuthStatusOk ==
    <<"A","U","T","H","E","N","T","I","C","A","T","E","D">>

\* 'uuid-'
UuidPrefix ==
    <<"u","u","i","d","-">>

\* 'Network'
WordCapitalNetwork ==
    <<"N","e","t","w","o","r","k">>

\* 'error'
WordError ==
    <<"e","r","r","o","r">>

\* 'failed'
WordFailed ==
    <<"f","a","i","l","e","d">>

(***************************************************************************)
(* JavaScript values                                                       *)
(***************************************************************************)
Undef == [t |-> "undefined"]

Null == [t |-> "null"]

Str(s) == [t |-> "string", v |-> s]

Num(n) == [t |-> "number", v |-> n]

Obj(f) == [t |-> "object", v |-> f]

EmptyObj == Obj(<<>>)

\* ToBoolean, as applied by !x, x || y and if (x)
Truthy(x) ==
    CASE x.t = "undefined" -> FALSE
      [] x.t = "null"      -> FALSE
      [] x.t = "string"    -> x.v # <<>>
      [] x.t = "number"    -> x.v # 0
      [] OTHER             -> TRUE

\* x || y
Or(x, y) == IF Truthy(x) THEN x ELSE y

Nullish(x) == x.t \in {"undefined", "null"}

\* o.k for an o that is not nullish (a missing property reads as undefined)
Get(o, k) == IF o.t = "object" /\ k \in DOMAIN o.v THEN o.v[k] ELSE Undef

\* o?.k
OptGet(o, k) == IF Nullish(o) THEN Undef ELSE Get(o, k)

\* { ...o, k1: v1, ... }: the own properties of o, then the listed ones
Spread(o, overrides) ==
    LET base == IF o.t = "object" THEN o.v ELSE <<>>
    IN  Obj([k \in (DOMAIN base) \cup (DOMAIN overrides) |->
                IF k \in DOMAIN overrides THEN overrides[k] ELSE base[k]])

DigitChars == <<"0", "1", "2", "3", "4", "5", "6", "7", "8", "9">>

RECURSIVE NumToStr(_)
NumToStr(n) ==
    IF n < 10 THEN <<DigitChars[n + 1]>>
    ELSE NumToStr(n \div 10) \o <<DigitChars[(n % 10) + 1]>>

\* String(x), as a template literal `${x}` and x.toString() apply it
ToStr(x) ==
    CASE x.t = "undefined" -> StrUndefined
      [] x.t = "null"      -> StrNull
      [] x.t = "string"    -> x.v
      [] x.t = "number"    -> NumToStr(x.v)
      [] OTHER             -> StrObject

\* s.includes(w)
Includes(s, w) ==
    \E i \in 0..(Len(s) - Len(w)) : SubSeq(s, i + 1, i + Len(w)) = w

\* s.startsWith(w)
StartsWith(s, w) == Len(w) <= Len(s) /\ SubSeq(s, 1, Len(w)) = w

\* s.trim() is not needed by this variant; message?.includes(w)
OptIncludes(m, w) == m.t = "string" /\ Includes(m.v, w)

(***************************************************************************)
(* Errors                                                                  *)
(***************************************************************************)
NoCode == "undefined"

NoError == [name |-> "none", code |-> NoCode, message |-> <<>>]

\* new Error(message), new TypeError(message), ...: no code property
JsError(name, message) == [name |-> name, code |-> NoCode, message |-> message]

\* class CorePasskeysError: constructor(message, code = 'UNKNOWN_ERROR')
CorePasskeysErrorWithCode(message, code) ==
    [name |-> "CorePasskeysError", code |-> code, message |-> message]

CorePasskeysError(message) == CorePasskeysErrorWithCode(message, "UNKNOWN_ERROR")

(***************************************************************************)
(* Pure helpers of the wrapper                                             *)
(***************************************************************************)
\* translateSdkError testing 'timeout' before 'network' and 'fetch'
translateSdkError_TimeoutFirst(sdkError) ==
    LET m == Get(sdkError, "message")
        tail == MsgOriginalOpen \o ToStr(m) \o MsgOriginalClose
    IN  IF OptIncludes(m, KwTimeout)
        THEN CorePasskeysErrorWithCode(MsgTimeout \o tail, "TIMEOUT")
        ELSE IF OptIncludes(m, KwNetwork) \/ OptIncludes(m, KwFetch)
        THEN CorePasskeysErrorWithCode(MsgNetworkError \o tail, "NETWORK_ERROR")
        ELSE IF OptIncludes(m, KwInvalid) \/ OptIncludes(m, KwValidation)
        THEN CorePasskeysErrorWithCode(MsgInvalidInput \o tail, "INVALID_INPUT")
        ELSE CorePasskeysErrorWithCode(MsgAuthFailed \o tail, "AUTH_FAILED")

translateSdkError(sdkError) ==
    LET m == Get(sdkError, "message")
        tail == MsgOriginalOpen \o ToStr(m) \o MsgOriginalClose
    IN  IF OptIncludes(m, KwNetwork) \/ OptIncludes(m, KwFetch)
        THEN CorePasskeysErrorWithCode(MsgNetworkError \o tail, "NETWORK_ERROR")
        ELSE IF OptIncludes(m, KwTimeout)
        THEN CorePasskeysErrorWithCode(MsgTimeout \o tail, "TIMEOUT")
        ELSE IF OptIncludes(m, KwInvalid) \/ OptIncludes(m, KwValidation)
        THEN CorePasskeysErrorWithCode(MsgInvalidInput \o tail, "INVALID_INPUT")
        ELSE CorePasskeysErrorWithCode(MsgAuthFailed \o tail, "AUTH_FAILED")

\* the properties every object literal inherits from Object.prototype
ObjectPrototypeKeys ==
    {KeyConstructor, KeyToString, KeyValueOf, KeyHasOwnProperty}

JsFunction == [t |-> "function"]

\* reasonMap[key], the key already converted to a property name
reasonMap(key) ==
    IF key = InLogin THEN Str(ReasonTransaction)
    ELSE IF key = InPayment THEN Str(ReasonTransaction)
    ELSE IF key = InEnroll THEN Str(ReasonEnrol)
    ELSE IF key \in ObjectPrototypeKeys THEN JsFunction
    ELSE Undef

mapAuthReason(reason) == Or(reasonMap(ToStr(reason)), Str(ReasonTransaction))

\* typeMap[key], the key already converted to a property name
typeMap(key) ==
    IF key = In3ds THEN Str(Method3DS)
    ELSE IF key = InPasskey THEN Str(MethodManaged)
    ELSE IF key \in ObjectPrototypeKeys THEN JsFunction
    ELSE Undef

mapAuthMethodType(type) == Or(typeMap(ToStr(type)), Str(Method3DS))

mapBillingAddress(billingAddress) ==
    Obj([line1       |-> Or(OptGet(billingAddress, "line1"), Str(<<>>)),
         line2       |-> Or(OptGet(billingAddress, "line2"), Str(<<>>)),
         city        |-> Or(OptGet(billingAddress, "city"), Str(<<>>)),
         state       |-> Or(OptGet(billingAddress, "state"), Str(<<>>)),
         zip         |-> Or(OptGet(billingAddress, "zip"), Str(<<>>)),
         countryCode |-> Or(OptGet(billingAddress, "country"), Str(<<>>))])

translateSdkResponse(sdkResponse) ==
    Obj([assuranceData        |-> Get(sdkResponse, "assuranceData"),
         authenticationStatus |-> Get(sdkResponse, "authenticationStatus"),
         authenticationResult |-> Get(sdkResponse, "authenticationResult"),
         srcCorrelationId     |-> Get(sdkResponse, "srcCorrelationId")])

\* the switch on _environment without the case 'development'
baseUrlFor_NoDevelopment(environment) ==
    IF environment = Str(EnvLocal) THEN UrlLocal
    ELSE IF environment = Str(EnvProduction) THEN UrlProduction
    ELSE UrlSandbox

\* the switch on _environment of getTokenBrandInfo
baseUrlFor(environment) ==
    IF environment = Str(EnvLocal) \/ environment = Str(EnvDevelopment) THEN UrlLocal
    ELSE IF environment = Str(EnvProduction) THEN UrlProduction
    ELSE UrlSandbox

apiUrlFor(baseUrl, managerCode, merchantCode, tokenCode) ==
    baseUrl \o PathManager \o ToStr(managerCode) \o PathMerchant \o ToStr(merchantCode)
            \o PathToken \o ToStr(tokenCode) \o PathBrandInfo

\* the scriptUrl of _loadSdkScript
scriptUrlFor(environment) ==
    IF environment = Str(EnvProduction) THEN ScriptUrlProduction ELSE ScriptUrlSandbox

(***************************************************************************)
(* Bounds and inputs                                                       *)
(***************************************************************************)
\* how many public calls the host page makes in one run
MaxCalls == 2

SdkHandle == Obj([authenticate |-> JsFunction])

\* config arguments: {}, and one per environment value
ConfigInputs ==
    {EmptyObj} \cup
    {Obj([environment |-> Str(e)]) :
        e \in {EnvLocal, EnvDevelopment, EnvProduction, EnvSandbox, EnvStaging}}

TxFields ==
    [authMethod           |-> Str(InPasskey),
     authReason           |-> Str(InPayment),
     amount               |-> Obj([value |-> Str(Amount9999), currency |-> Str(CurrencyUsd)]),
     acquirerMerchantId   |-> Str(AcqMerchantId),
     acquirerBIN          |-> Str(AcqBin),
     merchantCategoryCode |-> Str(Mcc5734),
     merchantCountryCode  |-> Str(CountryUs)]

Ids(managerCode, merchantCode, tokenCode) ==
    [managerCode |-> managerCode, merchantCode |-> merchantCode, tokenCode |-> tokenCode]

\* params arguments of getTokenBrandInfo
IdInputs ==
    {Obj(Ids(m, c, k)) : m \in {Undef, Str(<<>>), Str(IdAzul)},
                         c \in {Undef, Str(IdMerchant)},
                         k \in {Str(<<>>), Str(IdToken)}}
    \cup {Obj([managerCode |-> Str(IdAzul), merchantCode |-> Str(IdMerchant)])}

\* params arguments of executeAuthenticate
ParamInputs ==
    { Obj(Ids(Str(IdAzul), Str(IdMerchant), Str(IdToken)) @@ TxFields),
      Obj(Ids(Str(IdAzul), Str(IdMerchant), Str(IdToken))),
      Obj(Ids(Str(IdAzul), Str(IdMerchant), Str(<<>>)) @@ TxFields) }

CoreBody ==
    Obj([unifiedServiceId |-> Str(SvcId),
         unifiedClientId  |-> Str(ClientId),
         unifiedTokenId   |-> Str(TokenId),
         merchantInfo     |-> Obj([name |-> Str(MerchName), web |-> Str(MerchWeb),
                                   locale |-> Str(LocaleEsCl)]),
         billingAddress   |-> Obj([line1 |-> Str(Line1), country |-> Str(CountryUs)])])

\* JSON bodies the Core API may answer with
BodyInputs ==
    { CoreBody,
      Obj([unifiedTokenId |-> Str(TokenId), authMethod |-> Str(In3ds),
           amount |-> Obj([value |-> Num(5), currency |-> Str(CurrencyUsd)])]),
      Null }

\* coreData arguments of a direct authenticate call
CoreDataInputs ==
    { EmptyObj, CoreBody, Spread(CoreBody, TxFields) }

HttpResponse(ok, status, statusText, jsonOk, body) ==
    [type |-> "response", ok |-> ok, status |-> status, statusText |-> statusText,
     jsonOk |-> jsonOk, body |-> body, error |-> NoError]

\* what fetch may settle with
FetchOutcomes ==
    {HttpResponse(TRUE, 200, StatusTextOk, TRUE, b) : b \in BodyInputs} \cup
    { HttpResponse(TRUE, 200, StatusTextOk, FALSE, Undef),
      HttpResponse(FALSE, 404, StatusTextNotFound, TRUE, Undef),
      HttpResponse(FALSE, 500, StatusTextServerError, TRUE, Undef),
      [type |-> "reject", ok |-> FALSE, status |-> 0, statusText |-> <<>>,
       jsonOk |-> FALSE, body |-> Undef,
       error |-> JsError("TypeError", TypeErrorFailedToFetch)] }

\* generateUUID(): the n-th identifier drawn in this run; draws never repeat
generateUUID(n) == Str(UuidPrefix \o NumToStr(n))

SdkMessageInputs == {SdkMsgNetworkRequestFailed, SdkMsgUserCancelled}

SdkResponse ==
    Obj([assuranceData |-> EmptyObj, authenticationStatus |-> Str(AuthStatusOk),
         authenticationResult |-> EmptyObj, srcCorrelationId |-> generateUUID(1),
         extra |-> Str(AuthStatusOk)])

\* what sdk.authenticate may settle with
SdkOutcomes ==
    { [settled |-> "fulfilled", value |-> SdkResponse],
      [settled |-> "fulfilled", value |-> Undef],
      [settled |-> "rejected", value |-> EmptyObj] } \cup
    {[settled |-> "rejected", value |-> Obj([message |-> Str(m)])] : m \in SdkMessageInputs}


\* how many words a probed rejection message has at most
MaxWords == 2

SdkWords ==
    <<KwNetwork, KwFetch, KwTimeout, KwInvalid, KwValidation, WordCapitalNetwork,
      WordError, WordFailed>>

\* the messages of n words of SdkWords, joined by single spaces
RECURSIVE WordMessages(_)
WordMessages(n) ==
    IF n = 0 THEN {<<>>}
    ELSE IF n = 1 THEN {SdkWords[w] : w \in 1..Len(SdkWords)}
    ELSE {m \o <<" ">> \o SdkWords[w] : m \in WordMessages(n - 1), w \in 1..Len(SdkWords)}

\* what sdk.authenticate may reject with: an error without a message, or with one
SdkErrorInputs ==
    {EmptyObj, Obj([message |-> Undef])} \cup
    {Obj([message |-> Str(m)]) : m \in UNION {WordMessages(n) : n \in 0..MaxWords}}

(***************************************************************************)
(* State                                                                   *)
(***************************************************************************)
VARIABLES
    isInitialized,   \* let isInitialized
    _checkoutSdk,    \* let _checkoutSdk
    _environment,    \* let _environment
    windowSdk,       \* window.AUTHSDK_MASTERCARD
    scripts,         \* the script elements appended to document.head
    calls,           \* the public calls made so far, each with its position, the
                     \* fetch request and the sdk.authenticate payload it awaits
    delivered,       \* what the last step settled a public call with, if it did
    uuidCount,       \* how many identifiers generateUUID has returned
    sdkProbe         \* a rejection of sdk.authenticate and what authenticate makes of it

vars ==
    <<isInitialized, _checkoutSdk, _environment, windowSdk, scripts, calls, delivered,
      uuidCount, sdkProbe>>

NoRequest == [url |-> <<>>, method |-> "none", accept |-> "none", environment |-> Undef]

NoCause == [type |-> "none"]

NoProbe == [sdkError |-> Undef, settled |-> FALSE, ok |-> TRUE, error |-> NoError]

NoReport ==
    [call |-> 0, kind |-> "none", args |-> Undef, ok |-> TRUE, value |-> Undef,
     error |-> NoError,
     warned |-> FALSE, readyAtStart |-> FALSE, calledInit |-> FALSE,
     initError |-> NoError, nGet |-> 0, nSdk |-> 0, cause |-> NoCause]

\* params: the first argument of the call, kept until the call settles;
\* readyAtStart, afterOthers: whether the wrapper was Ready, and whether every
\* earlier call had settled, when this call was made
NewCall(kind, params) ==
    [kind |-> kind, pc |-> "start", params |-> params, coreData |-> Undef, script |-> 0,
     request |-> NoRequest, payload |-> Undef,
     nGet |-> 0, nSdk |-> 0, readyAtStart |-> isInitialized, calledInit |-> FALSE,
     afterOthers |-> \A j \in 1..Len(calls) : calls[j].pc = "done"]

\* a settled call keeps only its kind and its counts
Finished(c) ==
    [c EXCEPT !.pc = "done", !.params = Undef, !.coreData = Undef, !.script = 0,
              !.request = NoRequest, !.payload = Undef]

Fulfil(i, c, value, warned, cause) ==
    [call |-> i, kind |-> c.kind, args |-> c.params, ok |-> TRUE, value |-> value,
     error |-> NoError,
     warned |-> warned, readyAtStart |-> c.readyAtStart, calledInit |-> c.calledInit,
     initError |-> NoError, nGet |-> c.nGet, nSdk |-> c.nSdk, cause |-> cause]

Reject(i, c, error, initError, cause) ==
    [call |-> i, kind |-> c.kind, args |-> c.params, ok |-> FALSE, value |-> Undef,
     error |-> error,
     warned |-> FALSE, readyAtStart |-> c.readyAtStart, calledInit |-> c.calledInit,
     initError |-> initError, nGet |-> c.nGet, nSdk |-> c.nSdk, cause |-> cause]

InitWrapper ==
    /\ isInitialized = FALSE
    /\ _checkoutSdk = Null
    /\ _environment = Str(EnvSandbox)
    /\ windowSdk \in {Undef, SdkHandle}
    /\ scripts = <<>>
    /\ calls = <<>>
    /\ delivered = NoReport
    /\ uuidCount = 0

Init == InitWrapper /\ sdkProbe = NoProbe

(***************************************************************************)
(* The synchronous segments of the wrapper's functions.  Each operator     *)
(* reads the current state and returns what the segment does.              *)
(***************************************************************************)
\* _loadSdkScript(environment): the script element appended to document.head
_loadSdkScript(environment) == [src |-> scriptUrlFor(environment), state |-> "pending"]

\* lines 449-451 without the Object.keys call that throws on a missing handle
adoptGlobalSdk_NoKeys ==
    [outcome |-> "returned", sdk |-> windowSdk, scripts |-> scripts, error |-> NoError]

\* lines 449-451: adopt the global handle; Object.keys throws on a missing one
adoptGlobalSdk ==
    IF Nullish(windowSdk)
    THEN [outcome |-> "threw", sdk |-> windowSdk, scripts |-> scripts,
          error |-> JsError("TypeError", TypeErrorObjectKeys)]
    ELSE [outcome |-> "returned", sdk |-> windowSdk, scripts |-> scripts, error |-> NoError]

\* initMastercardSdk(config) returning the global handle without caching it
initMastercardSdk_NoCache(config) ==
    IF Truthy(_checkoutSdk)
    THEN [outcome |-> "returned", sdk |-> _checkoutSdk, scripts |-> scripts,
          error |-> NoError]
    ELSE IF ~Truthy(windowSdk)
    THEN [outcome |-> "loading", sdk |-> _checkoutSdk,
          scripts |-> Append(scripts,
                        _loadSdkScript(Or(Get(config, "environment"), Str(EnvSandbox)))),
          error |-> NoError]
    ELSE [outcome |-> "returned", sdk |-> _checkoutSdk, scripts |-> scripts,
          error |-> NoError]

\* initMastercardSdk(config), up to its await or its return
initMastercardSdk(config) ==
    IF Truthy(_checkoutSdk)
    THEN [outcome |-> "returned", sdk |-> _checkoutSdk, scripts |-> scripts,
          error |-> NoError]
    ELSE IF ~Truthy(windowSdk)
    THEN [outcome |-> "loading", sdk |-> _checkoutSdk,
          scripts |-> Append(scripts,
                        _loadSdkScript(Or(Get(config, "environment"), Str(EnvSandbox)))),
          error |-> NoError]
    ELSE adoptGlobalSdk

\* init(config) without the early return on isInitialized
init_NoGuard(config) ==
    IF Nullish(config)
    THEN [outcome |-> "threw", environment |-> _environment, sdk |-> _checkoutSdk,
          scripts |-> scripts, error |-> JsError("TypeError", TypeErrorReadEnvironment)]
    ELSE LET s == initMastercardSdk(config)
         IN  [outcome |-> s.outcome,
              environment |-> Or(Get(config, "environment"), Str(EnvSandbox)),
              sdk |-> s.sdk, scripts |-> s.scripts, error |-> s.error]

\* init(config) storing the environment before its early return on isInitialized
init_StoreFirst(config) ==
    IF Nullish(config)
    THEN [outcome |-> "threw", environment |-> _environment, sdk |-> _checkoutSdk,
          scripts |-> scripts, error |-> JsError("TypeError", TypeErrorReadEnvironment)]
    ELSE IF isInitialized
    THEN [outcome |-> "noop",
          environment |-> Or(Get(config, "environment"), Str(EnvSandbox)),
          sdk |-> _checkoutSdk, scripts |-> scripts, error |-> NoError]
    ELSE LET s == initMastercardSdk(config)
         IN  [outcome |-> s.outcome,
              environment |-> Or(Get(config, "environment"), Str(EnvSandbox)),
              sdk |-> s.sdk, scripts |-> s.scripts, error |-> s.error]

\* init(config), up to its await, its return or its throw
init(config) ==
    IF isInitialized
    THEN [outcome |-> "noop", environment |-> _environment, sdk |-> _checkoutSdk,
          scripts |-> scripts, error |-> NoError]
    ELSE IF Nullish(config)
    THEN [outcome |-> "threw", environment |-> _environment, sdk |-> _checkoutSdk,
          scripts |-> scripts, error |-> JsError("TypeError", TypeErrorReadEnvironment)]
    ELSE LET s == initMastercardSdk(config)
         IN  [outcome |-> s.outcome,
              environment |-> Or(Get(config, "environment"), Str(EnvSandbox)),
              sdk |-> s.sdk, scripts |-> s.scripts, error |-> s.error]

\* the validation of getTokenBrandInfo, forgetting tokenCode
missingIdentifier_NoTokenCode(params) ==
    \/ ~Truthy(Get(params, "managerCode"))
    \/ ~Truthy(Get(params, "merchantCode"))

\* the validation of getTokenBrandInfo: !managerCode || !merchantCode || !tokenCode
missingIdentifier(params) ==
    \/ ~Truthy(Get(params, "managerCode"))
    \/ ~Truthy(Get(params, "merchantCode"))
    \/ ~Truthy(Get(params, "tokenCode"))

\* getTokenBrandInfo(params), up to its await or its throw
getTokenBrandInfo(params) ==
    IF Nullish(params)
    THEN [outcome |-> "threw", url |-> <<>>,
          error |-> JsError("TypeError", TypeErrorDestructureParams)]
    ELSE IF missingIdentifier(params)
    THEN [outcome |-> "threw", url |-> <<>>,
          error |-> CorePasskeysErrorWithCode(MsgMissingParams, "INVALID_INPUT")]
    ELSE [outcome |-> "fetching",
          url |-> apiUrlFor(baseUrlFor(_environment), Get(params, "managerCode"),
                            Get(params, "merchantCode"), Get(params, "tokenCode")),
          error |-> NoError]

\* getTokenBrandInfo without the check of response.ok
fetchResult_NoStatusCheck(o) ==
    IF o.type = "reject"
    THEN [ok |-> FALSE, value |-> Undef,
          error |-> CorePasskeysErrorWithCode(MsgFetchFailedPrefix \o o.error.message,
                                              "CORE_API_ERROR")]
    ELSE IF ~o.jsonOk
    THEN [ok |-> FALSE, value |-> Undef,
          error |-> CorePasskeysErrorWithCode(MsgFetchFailedPrefix \o SyntaxErrorJson,
                                              "CORE_API_ERROR")]
    ELSE [ok |-> TRUE, value |-> o.body, error |-> NoError]

\* what the awaited fetch, the status check and response.json() come to,
\* through the catch of getTokenBrandInfo
fetchResult(o) ==
    IF o.type = "reject"
    THEN [ok |-> FALSE, value |-> Undef,
          error |-> CorePasskeysErrorWithCode(MsgFetchFailedPrefix \o o.error.message,
                                              "CORE_API_ERROR")]
    ELSE IF ~o.ok
    THEN [ok |-> FALSE, value |-> Undef,
          error |-> CorePasskeysErrorWithCode(
                        MsgFetchFailedPrefix \o MsgStatusPrefix \o NumToStr(o.status)
                            \o MsgColonSpace \o o.statusText,
                        "CORE_API_ERROR")]
    ELSE IF ~o.jsonOk
    THEN [ok |-> FALSE, value |-> Undef,
          error |-> CorePasskeysErrorWithCode(MsgFetchFailedPrefix \o SyntaxErrorJson,
                                              "CORE_API_ERROR")]
    ELSE [ok |-> TRUE, value |-> o.body, error |-> NoError]

\* the guard of authenticate, testing the cached handle instead of the flag
notInitialized_SdkMissing == ~Truthy(_checkoutSdk)

\* the guard of authenticate: if (!isInitialized)
notInitialized == ~isInitialized

\* the merge with the spread last, so that fetched fields win
mergedCoreData_FetchedWins(coreData, params) ==
    Spread(Obj([authMethod           |-> Get(params, "authMethod"),
                authReason           |-> Get(params, "authReason"),
                amount               |-> Get(params, "amount"),
                acquirerMerchantId   |-> Get(params, "acquirerMerchantId"),
                acquirerBIN          |-> Get(params, "acquirerBIN"),
                merchantCategoryCode |-> Get(params, "merchantCategoryCode"),
                merchantCountryCode  |-> Get(params, "merchantCountryCode")]),
           IF coreData.t = "object" THEN coreData.v ELSE <<>>)

\* the object executeAuthenticate hands to authenticate
mergedCoreData(coreData, params) ==
    Spread(coreData,
           [authMethod           |-> Get(params, "authMethod"),
            authReason           |-> Get(params, "authReason"),
            amount               |-> Get(params, "amount"),
            acquirerMerchantId   |-> Get(params, "acquirerMerchantId"),
            acquirerBIN          |-> Get(params, "acquirerBIN"),
            merchantCategoryCode |-> Get(params, "merchantCategoryCode"),
            merchantCountryCode  |-> Get(params, "merchantCountryCode")])

\* the mastercardPayload of authenticate, for a coreData with an amount.value
mastercardPayload(coreData) ==
    LET merchantInfo == Get(coreData, "merchantInfo")
        amount == Get(coreData, "amount")
    IN  Obj([srcCorrelationId |-> generateUUID(uuidCount + 1),
             serviceId        |-> Get(coreData, "unifiedServiceId"),
             srcClientId      |-> Get(coreData, "unifiedClientId"),
             traceId          |-> generateUUID(uuidCount + 2),
             accountReference |->
                 Obj([srcDigitalCardId |-> Get(coreData, "unifiedTokenId")]),
             authenticationMethod |->
                 Obj([authenticationMethodType |->
                          mapAuthMethodType(Get(coreData, "authMethod")),
                      authenticationSubject |-> Str(Cardholder)]),
             authenticationContext |->
                 Obj([authenticationReasons |->
                          <<mapAuthReason(Get(coreData, "authReason"))>>,
                      acquirerMerchantId |-> Get(coreData, "acquirerMerchantId"),
                      acquirerBIN |-> Get(coreData, "acquirerBIN"),
                      dpaData |-> Obj([dpaName |-> OptGet(merchantInfo, "name"),
                                       dpaUri  |-> OptGet(merchantInfo, "web")]),
                      dpaTransactionOptions |->
                          Obj([transactionAmount |->
                                   Obj([transactionAmount |->
                                            Str(ToStr(Get(amount, "value"))),
                                        transactionCurrencyCode |->
                                            Get(amount, "currency")]),
                               dpaLocale |-> OptGet(merchantInfo, "locale"),
                               threeDsInputData |->
                                   Obj([billingAddress |->
                                        mapBillingAddress(Get(coreData, "billingAddress"))]),
                               merchantCategoryCode |->
                                   Get(coreData, "merchantCategoryCode"),
                               merchantCountryCode |->
                                   Get(coreData, "merchantCountryCode")])])])

\* getMastercardSdk()
getMastercardSdk ==
    IF ~Truthy(_checkoutSdk)
    THEN [threw |-> TRUE, error |-> JsError("Error", MsgSdkNotInitialized)]
    ELSE [threw |-> FALSE, error |-> NoError]

\* authenticate(coreData), up to its await of sdk.authenticate or its throw
authenticate(coreData) ==
    IF notInitialized
    THEN [outcome |-> "threw", payload |-> Undef,
          error |-> CorePasskeysError(MsgNotInitialized)]
    ELSE IF getMastercardSdk.threw
    THEN [outcome |-> "threw", payload |-> Undef, error |-> getMastercardSdk.error]
    ELSE IF Nullish(coreData)
    THEN [outcome |-> "threw", payload |-> Undef,
          error |-> JsError("TypeError", TypeErrorDestructure)]
    ELSE IF Nullish(Get(coreData, "amount"))
    THEN [outcome |-> "threw", payload |-> Undef,
          error |-> JsError("TypeError", TypeErrorReadValue)]
    ELSE IF Nullish(Get(Get(coreData, "amount"), "value"))
    THEN [outcome |-> "threw", payload |-> Undef,
          error |-> JsError("TypeError", TypeErrorReadToString)]
    ELSE [outcome |-> "called", payload |-> mastercardPayload(coreData), error |-> NoError]

\* what the awaited sdk.authenticate comes to, through the try/catch of authenticate
sdkResult(o) ==
    IF o.settled = "rejected"
    THEN [ok |-> FALSE, value |-> Undef, error |-> translateSdkError(o.value)]
    ELSE IF Nullish(o.value)
    THEN [ok |-> FALSE, value |-> Undef,
          error |-> translateSdkError(Obj([message |-> Str(TypeErrorReadSdkResponse)]))]
    ELSE [ok |-> TRUE, value |-> translateSdkResponse(o.value), error |-> NoError]

\* the catch of executeAuthenticate, wrapping what it caught
executeAuthenticateCatch_Wrap(error) ==
    CorePasskeysErrorWithCode(error.message, "AUTH_FAILED")

\* the catch of executeAuthenticate: throw error
executeAuthenticateCatch(error) == error

(***************************************************************************)
(* Actions                                                                 *)
(***************************************************************************)
Put(i, c) == IF i = Len(calls) + 1 THEN Append(calls, c) ELSE [calls EXCEPT ![i] = c]

\* what an error thrown inside call c reaches the caller as: executeAuthenticate
\* passes it through its catch, the other functions let it out as it is
Thrown(c, error) ==
    IF c.kind = "executeAuthenticate" THEN executeAuthenticateCatch(error) ELSE error

\* call i, with record c, runs init(config) up to its first await
RunInit(i, c, config) ==
    LET e == init(config)
    IN  /\ _environment' = e.environment
        /\ _checkoutSdk' = e.sdk
        /\ scripts' = e.scripts
        /\ UNCHANGED <<isInitialized, windowSdk, uuidCount, sdkProbe>>
        /\ CASE e.outcome = "noop" ->
                  /\ calls' = Put(i, Finished(c))
                  /\ delivered' = Fulfil(i, c, Undef, TRUE, NoCause)
             [] e.outcome = "threw" ->
                  /\ calls' = Put(i, Finished(c))
                  /\ delivered' = Reject(i, c, Thrown(c, e.error), e.error, NoCause)
             [] e.outcome = "loading" ->
                  /\ calls' = Put(i, [c EXCEPT !.pc = "load_await",
                                               !.script = Len(e.scripts)])
                  /\ delivered' = NoReport
             [] OTHER ->
                  /\ calls' = Put(i, [c EXCEPT !.pc = "init_await"])
                  /\ delivered' = NoReport

\* call i, with record c, runs getTokenBrandInfo(params) up to its fetch
RunGetTokenBrandInfo(i, c, params) ==
    LET g == getTokenBrandInfo(params)
    IN  /\ UNCHANGED <<isInitialized, _checkoutSdk, _environment, windowSdk, scripts,
                       uuidCount, sdkProbe>>
        /\ IF g.outcome = "threw"
           THEN /\ calls' = Put(i, Finished(c))
                /\ delivered' = Reject(i, c, Thrown(c, g.error), NoError, NoCause)
           ELSE /\ calls' = Put(i, [c EXCEPT !.pc = "fetch_await", !.nGet = c.nGet + 1,
                                             !.request = [url |-> g.url, method |-> "GET",
                                                          accept |-> "application/json",
                                                          environment |-> _environment]])
                /\ delivered' = NoReport

\* call i, with record c, runs authenticate(coreData) up to sdk.authenticate
RunAuthenticate(i, c, coreData) ==
    LET a == authenticate(coreData)
    IN  /\ UNCHANGED <<isInitialized, _checkoutSdk, _environment, windowSdk, scripts,
                       sdkProbe>>
        /\ IF a.outcome = "threw"
           THEN /\ calls' = Put(i, Finished(c))
                /\ delivered' = Reject(i, c, Thrown(c, a.error), NoError, NoCause)
                /\ uuidCount' = uuidCount
           ELSE /\ calls' = Put(i, [c EXCEPT !.pc = "sdk_await", !.coreData = Undef,
                                             !.params = Undef, !.nSdk = c.nSdk + 1,
                                             !.payload = a.payload])
                /\ delivered' = NoReport
                /\ uuidCount' = uuidCount + 2

\* the host calls init(config)
InitCall(config) ==
    /\ Len(calls) < MaxCalls
    /\ RunInit(Len(calls) + 1, [NewCall("init", Undef) EXCEPT !.calledInit = TRUE], config)

\* the host calls executeAuthenticate(params, config); config defaults to {}
ExecuteAuthenticateCall(params, config) ==
    /\ Len(calls) < MaxCalls
    /\ IF ~isInitialized
       THEN RunInit(Len(calls) + 1,
                    [NewCall("executeAuthenticate", params) EXCEPT !.calledInit = TRUE],
                    IF config = Undef THEN EmptyObj ELSE config)
       ELSE RunGetTokenBrandInfo(Len(calls) + 1, NewCall("executeAuthenticate", params),
                                 Obj(Ids(Get(params, "managerCode"),
                                         Get(params, "merchantCode"),
                                         Get(params, "tokenCode"))))

\* the host calls getTokenBrandInfo(params)
GetTokenBrandInfoCall(params) ==
    /\ Len(calls) < MaxCalls
    /\ RunGetTokenBrandInfo(Len(calls) + 1, NewCall("getTokenBrandInfo", params), params)

\* the host calls authenticate(coreData)
AuthenticateCall(coreData) ==
    /\ Len(calls) < MaxCalls
    /\ RunAuthenticate(Len(calls) + 1, NewCall("authenticate", coreData), coreData)

\* script.onload: the script ran, and did or did not define the global handle
ScriptOnLoad(s, exposes) ==
    /\ s \in 1..Len(scripts)
    /\ scripts[s].state = "pending"
    /\ scripts' = [scripts EXCEPT ![s].state = "loaded"]
    /\ windowSdk' = IF exposes THEN SdkHandle ELSE windowSdk
    /\ delivered' = NoReport
    /\ UNCHANGED <<isInitialized, _checkoutSdk, _environment, calls, uuidCount, sdkProbe>>

\* script.onerror
ScriptOnError(s) ==
    /\ s \in 1..Len(scripts)
    /\ scripts[s].state = "pending"
    /\ scripts' = [scripts EXCEPT ![s].state = "error"]
    /\ delivered' = NoReport
    /\ UNCHANGED <<isInitialized, _checkoutSdk, _environment, windowSdk, calls, uuidCount,
                   sdkProbe>>

\* initMastercardSdk resumes after await _loadSdkScript(...)
LoadSdkScriptSettled(i) ==
    /\ i \in 1..Len(calls)
    /\ calls[i].pc = "load_await"
    /\ scripts[calls[i].script].state # "pending"
    /\ UNCHANGED <<isInitialized, _environment, windowSdk, scripts, uuidCount, sdkProbe>>
    /\ IF scripts[calls[i].script].state = "error"
       THEN LET error == JsError("Error",
                                 MsgLoadFailedPrefix \o scripts[calls[i].script].src)
            IN  /\ _checkoutSdk' = _checkoutSdk
                /\ calls' = Put(i, Finished(calls[i]))
                /\ delivered' = Reject(i, calls[i], Thrown(calls[i], error), error,
                                       [type |-> "script"])
       ELSE LET s == adoptGlobalSdk
            IN  /\ _checkoutSdk' = s.sdk
                /\ IF s.outcome = "threw"
                   THEN /\ calls' = Put(i, Finished(calls[i]))
                        /\ delivered' = Reject(i, calls[i], Thrown(calls[i], s.error),
                                               s.error, [type |-> "script"])
                   ELSE /\ calls' = Put(i, [calls[i] EXCEPT !.pc = "init_await",
                                                            !.script = 0])
                        /\ delivered' = NoReport

\* init resuming after await initMastercardSdk(config) without setting the flag
InitResume_NoFlag(i) ==
    /\ i \in 1..Len(calls)
    /\ calls[i].pc = "init_await"
    /\ UNCHANGED <<isInitialized, _checkoutSdk, _environment, windowSdk, scripts,
                   uuidCount, sdkProbe>>
    /\ IF calls[i].kind = "init"
       THEN /\ calls' = Put(i, Finished(calls[i]))
            /\ delivered' = Fulfil(i, calls[i], Undef, FALSE, NoCause)
       ELSE /\ calls' = Put(i, [calls[i] EXCEPT !.pc = "exec_after_init"])
            /\ delivered' = NoReport

\* init resumes after await initMastercardSdk(config)
InitResume(i) ==
    /\ i \in 1..Len(calls)
    /\ calls[i].pc = "init_await"
    /\ isInitialized' = TRUE
    /\ UNCHANGED <<_checkoutSdk, _environment, windowSdk, scripts, uuidCount, sdkProbe>>
    /\ IF calls[i].kind = "init"
       THEN /\ calls' = Put(i, Finished(calls[i]))
            /\ delivered' = Fulfil(i, calls[i], Undef, FALSE, NoCause)
       ELSE /\ calls' = Put(i, [calls[i] EXCEPT !.pc = "exec_after_init"])
            /\ delivered' = NoReport

\* executeAuthenticate resumes after await init(config)
ExecuteAfterInit(i) ==
    /\ i \in 1..Len(calls)
    /\ calls[i].pc = "exec_after_init"
    /\ RunGetTokenBrandInfo(i, calls[i],
                            Obj(Ids(Get(calls[i].params, "managerCode"),
                                    Get(calls[i].params, "merchantCode"),
                                    Get(calls[i].params, "tokenCode"))))

\* getTokenBrandInfo resumes after await fetch(...)
FetchSettled(i, o) ==
    /\ i \in 1..Len(calls)
    /\ calls[i].pc = "fetch_await"
    /\ UNCHANGED <<isInitialized, _checkoutSdk, _environment, windowSdk, scripts,
                   uuidCount, sdkProbe>>
    /\ LET r == fetchResult(o)
           cause == [type |-> "fetch", outcome |-> o]
       IN  IF ~r.ok
           THEN /\ calls' = Put(i, Finished(calls[i]))
                /\ delivered' = Reject(i, calls[i], Thrown(calls[i], r.error), NoError, cause)
           ELSE IF calls[i].kind = "getTokenBrandInfo"
           THEN /\ calls' = Put(i, Finished(calls[i]))
                /\ delivered' = Fulfil(i, calls[i], r.value, FALSE, cause)
           ELSE /\ calls' = Put(i, [calls[i] EXCEPT !.pc = "exec_after_fetch",
                                                    !.coreData = r.value])
                /\ delivered' = NoReport

\* executeAuthenticate resumes after await getTokenBrandInfo(...)
ExecuteAfterFetch(i) ==
    /\ i \in 1..Len(calls)
    /\ calls[i].pc = "exec_after_fetch"
    /\ RunAuthenticate(i, calls[i], mergedCoreData(calls[i].coreData, calls[i].params))

\* authenticate resumes after await sdk.authenticate(mastercardPayload)
SdkSettled(i, o) ==
    /\ i \in 1..Len(calls)
    /\ calls[i].pc = "sdk_await"
    /\ UNCHANGED <<isInitialized, _checkoutSdk, _environment, windowSdk, scripts,
                   uuidCount, sdkProbe>>
    /\ LET r == sdkResult(o)
           cause == [type |-> "sdk", outcome |-> o]
       IN  /\ calls' = Put(i, Finished(calls[i]))
           /\ delivered' = IF r.ok THEN Fulfil(i, calls[i], r.value, FALSE, cause)
                           ELSE Reject(i, calls[i], Thrown(calls[i], r.error), NoError, cause)

Next ==
    \/ \E config \in ConfigInputs : InitCall(config)
    \/ \E params \in ParamInputs, config \in ConfigInputs \cup {Undef} :
           ExecuteAuthenticateCall(params, config)
    \/ \E params \in IdInputs : GetTokenBrandInfoCall(params)
    \/ \E coreData \in CoreDataInputs : AuthenticateCall(coreData)
    \/ \E s \in 1..Len(scripts), exposes \in BOOLEAN : ScriptOnLoad(s, exposes)
    \/ \E s \in 1..Len(scripts) : ScriptOnError(s)
    \/ \E i \in 1..Len(calls) : LoadSdkScriptSettled(i)
    \/ \E i \in 1..Len(calls) : InitResume(i)
    \/ \E i \in 1..Len(calls) : ExecuteAfterInit(i)
    \/ \E i \in 1..Len(calls), o \in FetchOutcomes : FetchSettled(i, o)
    \/ \E i \in 1..Len(calls) : ExecuteAfterFetch(i)
    \/ \E i \in 1..Len(calls), o \in SdkOutcomes : SdkSettled(i, o)

Spec == Init /\ [][Next]_vars

(***************************************************************************)
(* The handling of a rejected sdk.authenticate on its own: the rejection   *)
(* is drawn from SdkErrorInputs and goes through the catch of authenticate *)
(***************************************************************************)
InitSdkError ==
    /\ InitWrapper
    /\ sdkProbe \in {[NoProbe EXCEPT !.sdkError = e] : e \in SdkErrorInputs}

SdkRejects ==
    /\ ~sdkProbe.settled
    /\ LET r == sdkResult([settled |-> "rejected", value |-> sdkProbe.sdkError])
       IN  sdkProbe' = [sdkProbe EXCEPT !.settled = TRUE, !.ok = r.ok, !.error = r.error]
    /\ UNCHANGED <<isInitialized, _checkoutSdk, _environment, windowSdk, scripts, calls,
                   delivered, uuidCount>>

NextSdkError == SdkRejects

SpecSdkError == InitSdkError /\ [][NextSdkError]_vars

(***************************************************************************)
(* authenticate on a Ready wrapper on its own: the wrapper is in a state a *)
(* completed init(config) leaves it in when the page already had the       *)
(* global handle, and the host calls authenticate with a coreData drawn    *)
(* from PayloadInputs                                                      *)
(***************************************************************************)
\* authMethod values: the two mapped ones, an unmapped one, the empty string,
\* none, and the name of a property every object inherits
MethodInputs ==
    {Str(In3ds), Str(InPasskey), Str(InLogin), Str(<<>>), Undef, Str(KeyConstructor)}

\* authReason values: the three mapped ones, an unmapped one, none, and the
\* name of a property every object inherits
ReasonInputs ==
    {Str(InLogin), Str(InPayment), Str(InEnroll), Str(In3ds), Undef, Str(KeyToString)}

\* amount values: a string amount and a numeric one
AmountInputs ==
    {TxFields.amount, Obj([value |-> Num(5), currency |-> Str(CurrencyUsd)])}

\* coreData arguments that differ in authMethod, authReason and amount only
PayloadInputs ==
    {Spread(CoreBody, [TxFields EXCEPT !.authMethod = m, !.authReason = r, !.amount = a]) :
        m \in MethodInputs, r \in ReasonInputs, a \in AmountInputs}

\* the record of the init(config) call that made the wrapper Ready
CompletedInit ==
    [kind |-> "init", pc |-> "done", params |-> Undef, coreData |-> Undef, script |-> 0,
     request |-> NoRequest, payload |-> Undef, nGet |-> 0, nSdk |-> 0,
     readyAtStart |-> FALSE, calledInit |-> TRUE, afterOthers |-> TRUE]

InitReady ==
    /\ isInitialized = TRUE
    /\ _checkoutSdk = SdkHandle
    /\ _environment \in {Or(Get(config, "environment"), Str(EnvSandbox)) :
                             config \in ConfigInputs}
    /\ windowSdk = SdkHandle
    /\ scripts = <<>>
    /\ calls = <<CompletedInit>>
    /\ delivered = Fulfil(1, CompletedInit, Undef, FALSE, NoCause)
    /\ uuidCount = 0
    /\ sdkProbe = NoProbe

NextReady ==
    \/ \E coreData \in PayloadInputs : AuthenticateCall(coreData)
    \/ \E i \in 1..Len(calls), o \in SdkOutcomes : SdkSettled(i, o)

SpecReady == InitReady /\ [][NextReady]_vars

(***************************************************************************)
(* Claims                                                                  *)
(***************************************************************************)
\* C1: an authenticate call made while the wrapper is not initialized is
\* rejected with the library error that says the wrapper is not initialized,
\* and that call never reaches sdk.authenticate: it settles in the step that
\* made it, so it is never found waiting for the SDK.
C1_AuthenticateBeforeInit ==
    /\ (delivered.kind = "authenticate" /\ ~delivered.readyAtStart) =>
           /\ ~delivered.ok
           /\ delivered.error.name = "CorePasskeysError"
           /\ delivered.error.message = MsgNotInitialized
           /\ delivered.nSdk = 0
    /\ \A i \in 1..Len(calls) :
           (calls[i].kind = "authenticate" /\ ~calls[i].readyAtStart) =>
               (calls[i].pc = "done" /\ calls[i].nSdk = 0)

\* C1 witness: authenticate, given a usable coreData, is rejected while an init
\* call is in flight that has already cached the SDK handle.
C1_Witness ==
    /\ delivered.kind = "authenticate"
    /\ ~delivered.readyAtStart
    /\ delivered.args = Spread(CoreBody, TxFields)
    /\ ~delivered.ok
    /\ Truthy(_checkoutSdk)
    /\ \E j \in 1..Len(calls) : calls[j].pc = "init_await"

\* C2: executeAuthenticate called on an uninitialized wrapper calls init before
\* anything else (no GET while its init is pending), and when that init fails
\* it rejects with the very error init failed with, having issued no GET and
\* made no sdk.authenticate call.
C2_ExecuteInitFailure ==
    /\ \A i \in 1..Len(calls) :
           (calls[i].kind = "executeAuthenticate" /\ ~calls[i].readyAtStart) =>
               /\ calls[i].calledInit
               /\ calls[i].pc \in {"load_await", "init_await", "exec_after_init"} =>
                      (calls[i].nGet = 0 /\ calls[i].nSdk = 0)
    /\ (delivered.kind = "executeAuthenticate" /\ delivered.initError # NoError) =>
           /\ ~delivered.ok
           /\ delivered.error = delivered.initError
           /\ delivered.nGet = 0
           /\ delivered.nSdk = 0

\* C2 witness: executeAuthenticate on an uninitialized wrapper is rejected
\* because the SDK script it injected failed to load.
C2_Witness ==
    /\ delivered.kind = "executeAuthenticate"
    /\ ~delivered.readyAtStart
    /\ delivered.initError.name = "Error"
    /\ StartsWith(delivered.initError.message, MsgLoadFailedPrefix)

\* an identifier that is empty or absent
C3_EmptyOrAbsent(x) == x = Undef \/ x = Str(<<>>)

\* C3: getTokenBrandInfo called with managerCode, merchantCode or tokenCode
\* empty or absent is rejected with a CorePasskeysError of code INVALID_INPUT
\* and issues no HTTP request, whatever the wrapper state and environment.
C3_InvalidInput ==
    /\ ( /\ delivered.kind = "getTokenBrandInfo"
         /\ delivered.args.t = "object"
         /\ \E k \in {"managerCode", "merchantCode", "tokenCode"} :
                C3_EmptyOrAbsent(Get(delivered.args, k)) ) =>
           /\ ~delivered.ok
           /\ delivered.error.name = "CorePasskeysError"
           /\ delivered.error.code = "INVALID_INPUT"
           /\ delivered.nGet = 0
    /\ \A i \in 1..Len(calls) :
           (calls[i].kind = "getTokenBrandInfo" /\ calls[i].pc = "fetch_await") =>
               \A k \in {"managerCode", "merchantCode", "tokenCode"} :
                   ~C3_EmptyOrAbsent(Get(calls[i].params, k))

\* C3 witness: a Ready wrapper whose stored environment is production rejects
\* a getTokenBrandInfo call that lacks only tokenCode.
C3_Witness ==
    /\ delivered.kind = "getTokenBrandInfo"
    /\ delivered.args = Obj([managerCode |-> Str(IdAzul), merchantCode |-> Str(IdMerchant)])
    /\ delivered.error.code = "INVALID_INPUT"
    /\ isInitialized
    /\ _environment = Str(EnvProduction)

\* this step is a call of init: a new public call that runs init(config)
InitInvoked ==
    /\ Len(calls') = Len(calls) + 1
    /\ calls'[Len(calls')].calledInit

\* this step leaves the flag, the stored environment and the cached handle as
\* they are and appends no script element
InitStateKept ==
    /\ isInitialized' = isInitialized
    /\ _environment' = _environment
    /\ _checkoutSdk' = _checkoutSdk
    /\ scripts' = scripts

\* C4 as claimed: every init call after the first one is a no-op.
C4_Original ==
    [][(InitInvoked /\ \E j \in 1..Len(calls) : calls[j].calledInit) => InitStateKept]_vars

\* C4 as amended: every init call made once the wrapper is Ready is a no-op:
\* it warns, resolves, leaves the flag, the stored environment and the cached
\* handle unchanged and injects no script.
C4_ReadyInitIsNoOp ==
    [][(InitInvoked /\ isInitialized) =>
           (InitStateKept /\ delivered'.ok /\ delivered'.warned)]_vars

\* C4 witness: an init call made on a Ready wrapper has returned with the warning.
C4_Witness ==
    /\ delivered.kind = "init"
    /\ delivered.readyAtStart
    /\ delivered.warned
    /\ delivered.ok
    /\ isInitialized

\* C5: the flag is set only by an init whose SDK loading completed with a
\* handle, is never cleared, is left alone by an init whose script fails to
\* load, and an init call on an Uninitialized wrapper with no handle at hand
\* starts the script load again.
C5_TwoStates ==
    [][ /\ isInitialized => isInitialized'
        /\ (~isInitialized /\ isInitialized') =>
               /\ Truthy(_checkoutSdk)
               /\ \E i \in 1..Len(calls) :
                      /\ calls[i].pc = "init_await"
                      /\ calls[i].calledInit
                      /\ calls'[i].pc # "init_await"
        /\ (delivered'.cause.type = "script") =>
               (~delivered'.ok /\ isInitialized' = isInitialized)
        /\ (InitInvoked /\ ~isInitialized /\ ~Truthy(_checkoutSdk) /\ ~Truthy(windowSdk)) =>
               \/ delivered'.error.name = "TypeError"
               \/ /\ Len(scripts') = Len(scripts) + 1
                  /\ calls'[Len(calls')].pc = "load_await"
                  /\ scripts'[Len(scripts')].state = "pending" ]_vars

\* C5 witness: a first init failed on its script, a second one loaded its own
\* script and made the wrapper Ready.
C5_Witness ==
    /\ Len(scripts) = 2
    /\ scripts[1].state = "error"
    /\ scripts[2].state = "loaded"
    /\ Len(calls) = 2
    /\ calls[1].pc = "done"
    /\ calls[2].afterOthers
    /\ ~calls[2].readyAtStart
    /\ isInitialized
    /\ delivered.call = 2

\* C6 as claimed: overlapping init calls share one in-flight SDK load, so at
\* most one injected script is pending and the calls awaiting a load await
\* the same one.
C6_SingleFlight ==
    /\ Cardinality({s \in 1..Len(scripts) : scripts[s].state = "pending"}) <= 1
    /\ \A i, j \in 1..Len(calls) :
           (calls[i].pc = "load_await" /\ calls[j].pc = "load_await") =>
               calls[i].script = calls[j].script

\* C7 as claimed: every failure that reaches a caller is a CorePasskeysError
\* carrying a code and a message.
C7_SingleErrorType ==
    ~delivered.ok =>
        /\ delivered.error.name = "CorePasskeysError"
        /\ delivered.error.code # NoCode
        /\ delivered.error.message # <<>>

\* C8: a getTokenBrandInfo call with valid identifiers settles after exactly
\* one GET; a non-success status gives CORE_API_ERROR with the status code in
\* the message, a transport failure gives CORE_API_ERROR with the reason in the
\* message, a success gives the parsed body unchanged, and no outcome of the
\* request gives another error code.
C8_CoreApiOutcomes ==
    /\ \A i \in 1..Len(calls) : calls[i].kind = "getTokenBrandInfo" => calls[i].nGet <= 1
    /\ ( /\ delivered.kind = "getTokenBrandInfo"
         /\ delivered.args.t = "object"
         /\ \A k \in {"managerCode", "merchantCode", "tokenCode"} :
                ~C3_EmptyOrAbsent(Get(delivered.args, k)) ) =>
           /\ delivered.nGet = 1
           /\ delivered.cause.type = "fetch"
           /\ LET o == delivered.cause.outcome
              IN  /\ ~delivered.ok =>
                         /\ delivered.error.name = "CorePasskeysError"
                         /\ delivered.error.code = "CORE_API_ERROR"
                  /\ (o.type = "response" /\ ~o.ok) =>
                         /\ ~delivered.ok
                         /\ o.status = 404 =>
                                Includes(delivered.error.message, <<"4", "0", "4">>)
                         /\ o.status = 500 =>
                                Includes(delivered.error.message, <<"5", "0", "0">>)
                  /\ o.type = "reject" =>
                         /\ ~delivered.ok
                         /\ Includes(delivered.error.message, o.error.message)
                  /\ (o.type = "response" /\ o.ok /\ o.jsonOk) =>
                         /\ delivered.ok
                         /\ delivered.value = o.body

\* C8 witness: a getTokenBrandInfo call with valid identifiers was answered 404.
C8_Witness ==
    /\ delivered.kind = "getTokenBrandInfo"
    /\ delivered.cause.type = "fetch"
    /\ delivered.cause.outcome.type = "response"
    /\ delivered.cause.outcome.status = 404
    /\ delivered.error.code = "CORE_API_ERROR"

\* the rejection message mentions w
C9_Mentions(w) ==
    LET m == Get(sdkProbe.sdkError, "message")
    IN  m.t = "string" /\ Includes(m.v, w)

\* C9: a rejection of sdk.authenticate reaches the caller as a CorePasskeysError
\* whose code follows from the rejection message by first match: NETWORK_ERROR
\* for 'network' or 'fetch', else TIMEOUT for 'timeout', else INVALID_INPUT for
\* 'invalid' or 'validation', else AUTH_FAILED (also without a message); a
\* message that is there is contained in the resulting message.
C9_SdkErrorCode ==
    sdkProbe.settled =>
        /\ ~sdkProbe.ok
        /\ sdkProbe.error.name = "CorePasskeysError"
        /\ sdkProbe.error.code =
               IF C9_Mentions(KwNetwork) \/ C9_Mentions(KwFetch) THEN "NETWORK_ERROR"
               ELSE IF C9_Mentions(KwTimeout) THEN "TIMEOUT"
               ELSE IF C9_Mentions(KwInvalid) \/ C9_Mentions(KwValidation)
               THEN "INVALID_INPUT"
               ELSE "AUTH_FAILED"
        /\ Get(sdkProbe.sdkError, "message").t = "string" =>
               Includes(sdkProbe.error.message, Get(sdkProbe.sdkError, "message").v)

\* C9 witness: a rejection whose message mentions both 'timeout' and 'network'
\* came out as NETWORK_ERROR.
C9_Witness ==
    /\ sdkProbe.settled
    /\ sdkProbe.sdkError = Obj([message |-> Str(KwTimeout \o <<" ">> \o KwNetwork)])
    /\ sdkProbe.error.code = "NETWORK_ERROR"

\* the base URL the claim gives for a stored environment
C10_Base(environment) ==
    IF environment \in {Str(EnvLocal), Str(EnvDevelopment)} THEN UrlLocal
    ELSE IF environment = Str(EnvProduction) THEN UrlProduction
    ELSE UrlSandbox

C11_Method(authMethod) ==
    IF authMethod = Str(InPasskey) THEN Str(MethodManaged) ELSE Str(Method3DS)

\* the reason the claim gives for an authReason
C11_Reason(authReason) ==
    IF authReason = Str(InEnroll) THEN Str(ReasonEnrol) ELSE Str(ReasonTransaction)

\* C11 as claimed: every payload handed to sdk.authenticate has
\* authenticationMethodType 'MANAGED_AUTHENTICATION' for passkey and '3DS' for
\* 3ds and for every other or absent method, and exactly one
\* authenticationReasons entry, 'ENROL_FINANCIAL_INSTRUMENT' for enroll and
\* 'TRANSACTION_AUTHENTICATION' for every other or absent reason.
C11_PayloadMapping ==
    [][\A coreData \in PayloadInputs :
           (AuthenticateCall(coreData) /\ calls'[Len(calls')].pc = "sdk_await") =>
               LET payload == calls'[Len(calls')].payload
                   context == Get(payload, "authenticationContext")
               IN  /\ Get(Get(payload, "authenticationMethod"), "authenticationMethodType")
                          = C11_Method(Get(coreData, "authMethod"))
                   /\ Get(context, "authenticationReasons")
                          = <<C11_Reason(Get(coreData, "authReason"))>>]_vars

\* where an executeAuthenticate call stands: its counts of GETs and of
\* sdk.authenticate calls at each position, and the wrapper being Ready from
\* the GET on
C12_Stages(c) ==
    /\ c.nGet <= 1
    /\ c.nSdk <= c.nGet
    /\ c.pc \in {"load_await", "init_await", "exec_after_init"} =>
           (c.nGet = 0 /\ c.nSdk = 0)
    /\ c.pc \in {"fetch_await", "exec_after_fetch"} =>
           (isInitialized /\ c.nGet = 1 /\ c.nSdk = 0)
    /\ c.pc = "sdk_await" => (isInitialized /\ c.nGet = 1 /\ c.nSdk = 1)

\* what an executeAuthenticate call that failed had done, by the stage that failed
C12_FailedStage ==
    (delivered.kind = "executeAuthenticate" /\ ~delivered.ok) =>
        /\ delivered.initError # NoError => (delivered.nGet = 0 /\ delivered.nSdk = 0)
        /\ delivered.cause.type = "script" => (delivered.nGet = 0 /\ delivered.nSdk = 0)
        /\ delivered.cause.type = "fetch" => (delivered.nGet = 1 /\ delivered.nSdk = 0)
        /\ delivered.cause.type = "sdk" => (delivered.nGet = 1 /\ delivered.nSdk = 1)
        /\ delivered.cause.type = "none" => delivered.nSdk = 0

\* a step in which executeAuthenticate call i issues its GET or calls
\* sdk.authenticate does so from the stage before: the GET as the call starts on
\* a Ready wrapper or as its init returns, sdk.authenticate as its GET has
\* been answered with a success status and a parsed body
C12_StepOrder(i) ==
    LET before == IF i <= Len(calls) THEN calls[i] ELSE NewCall("executeAuthenticate", Undef)
        after == calls'[i]
    IN  after.kind = "executeAuthenticate" =>
            /\ after.nGet > before.nGet =>
                   /\ isInitialized
                   /\ before.pc \in {"start", "exec_after_init"}
            /\ (after.pc = "exec_after_fetch" /\ before.pc # "exec_after_fetch") =>
                   \E o \in FetchOutcomes :
                       /\ o.type = "response" /\ o.ok /\ o.jsonOk
                       /\ before.pc = "fetch_await"
                       /\ after.coreData = o.body
            /\ after.nSdk > before.nSdk => before.pc = "exec_after_fetch"

\* C12: an executeAuthenticate call goes through initialize-if-needed, the
\* Core API GET and sdk.authenticate in this order and at most once each: the
\* GET is issued only on a Ready wrapper, sdk.authenticate only after the GET
\* succeeded, and a call that failed at a stage has performed no later stage.
C12_Sequential ==
    /\ [](C12_FailedStage /\
          \A i \in 1..Len(calls) :
              calls[i].kind = "executeAuthenticate" => C12_Stages(calls[i]))
    /\ [][\A i \in 1..Len(calls') : C12_StepOrder(i)]_vars

\* C12 witness: an executeAuthenticate call made on an Uninitialized wrapper
\* has gone through init, one GET and one sdk.authenticate call and resolved.
C12_Witness ==
    /\ delivered.kind = "executeAuthenticate"
    /\ ~delivered.readyAtStart
    /\ delivered.calledInit
    /\ delivered.ok
    /\ delivered.nGet = 1
    /\ delivered.nSdk = 1

\* C13 as claimed: the stored environment is written once: after a first call
\* has run init on the Uninitialized wrapper, no step changes it.
C13_Original ==
    [][(\E j \in 1..Len(calls) : calls[j].calledInit /\ ~calls[j].readyAtStart) =>
           _environment' = _environment]_vars

\* C13 as amended: the stored environment changes only in a step in which a
\* call runs init on an Uninitialized wrapper, and never once the wrapper is
\* Ready.
C13_ReadOnlyOnceReady ==
    [][ /\ isInitialized => _environment' = _environment
        /\ _environment' # _environment => (InitInvoked /\ ~isInitialized) ]_vars

\* C13 witness: the wrapper became Ready with a stored environment other than
\* the default, and an init call made after that returned as a no-op.
C13_Witness ==
    /\ isInitialized
    /\ _environment = Str(EnvLocal)
    /\ Len(calls) = 2
    /\ calls[1].calledInit
    /\ delivered.call = 2
    /\ delivered.kind = "init"
    /\ delivered.readyAtStart
    /\ delivered.ok

\* the fields the claim says come from the caller
C14_CallerFields ==
    {"authMethod", "authReason", "amount", "acquirerMerchantId", "acquirerBIN",
     "merchantCategoryCode", "merchantCountryCode"}

\* the data the claim says authenticate is handed: the caller's value for each
\* caller field, absent or not, and the fetched value for every other field
C14_Merged(fetched, params) ==
    LET fetchedKeys == IF fetched.t = "object" THEN DOMAIN fetched.v ELSE {}
    IN  Obj([k \in fetchedKeys \cup C14_CallerFields |->
                 IF k \in C14_CallerFields THEN Get(params, k) ELSE fetched.v[k]])

\* C14: executeAuthenticate hands authenticate the fetched Core data with the
\* seven transaction fields replaced by the caller's values, also where the
\* fetched data has such a field and where the caller's value is absent: the
\* step after the GET is authenticate run on exactly that data.
C14_MergedCoreData ==
    [][\A i \in 1..Len(calls) :
           (calls[i].pc = "exec_after_fetch" /\ calls'[i].pc # "exec_after_fetch") =>
               LET a == authenticate(C14_Merged(calls[i].coreData, calls[i].params))
               IN  IF a.outcome = "called"
                   THEN /\ calls'[i].pc = "sdk_await"
                        /\ calls'[i].payload = a.payload
                   ELSE /\ calls'[i].pc = "done"
                        /\ ~delivered'.ok
                        /\ delivered'.error = a.error]_vars

\* C14 witness: the Core API answered with a body that has its own authMethod
\* '3ds' and amount 5 and no service id, and the payload handed to the SDK has
\* the caller's passkey method and amount and the fetched token id.
C14_Witness ==
    \E i \in 1..Len(calls) :
        /\ calls[i].kind = "executeAuthenticate"
        /\ calls[i].pc = "sdk_await"
        /\ LET payload == calls[i].payload
               context == Get(payload, "authenticationContext")
               options == Get(context, "dpaTransactionOptions")
           IN  /\ Get(payload, "serviceId") = Undef
               /\ Get(Get(payload, "accountReference"), "srcDigitalCardId") = Str(TokenId)
               /\ Get(Get(payload, "authenticationMethod"), "authenticationMethodType")
                      = Str(MethodManaged)
               /\ Get(Get(options, "transactionAmount"), "transactionAmount")
                      = Str(Amount9999)

\* C15: whenever the initialization flag is set the cached SDK handle is set,
\* so no call is ever rejected by the SDK accessor with 'Mastercard SDK not
\* initialized', and every call waiting for sdk.authenticate has a handle.
C15_ReadyHasSdk ==
    /\ isInitialized => (Truthy(_checkoutSdk) /\ ~getMastercardSdk.threw)
    /\ delivered.error.message # MsgSdkNotInitialized
    /\ \A i \in 1..Len(calls) : calls[i].pc = "sdk_await" => Truthy(_checkoutSdk)

\* C15 witness: two init calls overlapped, each injecting a script that has
\* loaded, and the second call has made the wrapper Ready with a cached handle.
C15_Witness ==
    /\ isInitialized
    /\ Truthy(_checkoutSdk)
    /\ Len(scripts) = 2
    /\ scripts[1].state = "loaded"
    /\ scripts[2].state = "loaded"
    /\ Len(calls) = 2
    /\ ~calls[2].afterOthers
    /\ delivered.call = 2
    /\ delivered.kind = "init"
    /\ delivered.ok

\* C16 as claimed: whenever the wrapper is Ready, every injected script has the
\* production URL exactly if the stored environment is production.
C16_ScriptMatchesEnvironment ==
    isInitialized =>
        \A s \in 1..Len(scripts) :
            (scripts[s].src = ScriptUrlProduction) <=> (_environment = Str(EnvProduction))

====
